---- MODULE Spec2Model ----
(***************************************************************************)
(* PyNomaly 0.1.5, PyNomaly/loop.py: LocalOutlierProbability.              *)
(*                                                                         *)
(* The object is constructed from (data, extent, n_neighbors,              *)
(* cluster_labels); fit() runs nine column-producing stages over a         *)
(* per-observation table and returns column 10.                            *)
(*                                                                         *)
(* Floating point numbers are modelled in fixed point: the float x is the  *)
(* integer x * SCALE, truncated.  NaN, +inf and -inf are three reserved    *)
(* integers and every arithmetic operator treats them as IEEE 754 does.    *)
(* Cluster ids stored in column 0 of the table are kept unscaled.          *)
(*                                                                         *)
(* The order of the loop over the clusters is that of CPython's set; the   *)
(* variable interpreter is the CPython the process runs on (3.6, or 3.7    *)
(* and later), fixed for the life of the process.                          *)
(***************************************************************************)
EXTENDS Integers, Sequences, FiniteSets

VARIABLES interpreter, data, extent, n_neighbors, cluster_labels,
          local_outlier_probabilities, cluster_labels_u,
          store, todo, pc, stage, calls, reads, written

vars == <<interpreter, data, extent, n_neighbors, cluster_labels,
          local_outlier_probabilities, cluster_labels_u,
          store, todo, pc, stage, calls, reads, written>>

(***************************************************************************)
(* Bounds of the explored inputs.                                          *)
(***************************************************************************)
MaxObs == 3
MaxNeighbors == 3
MaxLabel == 1
MaxCalls == 2

(***************************************************************************)
(* Number representation.                                                  *)
(***************************************************************************)
SCALE == 10 * 10 * 10
Inf == 2^30
NegInf == -Inf
NaN == Inf + 1
None == <<>>

IsNaN(x) == x = NaN
IsInfinite(x) == x = Inf \/ x = NegInf
IsFinite(x) == ~IsNaN(x) /\ ~IsInfinite(x)

Min(a, b) == IF a <= b THEN a ELSE b
Max(a, b) == IF a >= b THEN a ELSE b

\* IEEE comparison: false as soon as one side is NaN.
FLt(a, b) == ~IsNaN(a) /\ ~IsNaN(b) /\ a < b
FLe(a, b) == ~IsNaN(a) /\ ~IsNaN(b) /\ a <= b

FNeg(a) == IF IsNaN(a) THEN NaN ELSE -a

FAdd(a, b) ==
    IF IsNaN(a) \/ IsNaN(b) THEN NaN
    ELSE IF IsInfinite(a) /\ IsInfinite(b) THEN (IF a = b THEN a ELSE NaN)
    ELSE IF IsInfinite(a) THEN a
    ELSE IF IsInfinite(b) THEN b
    ELSE a + b

FSub(a, b) == FAdd(a, FNeg(b))

FAbs(a) == IF IsNaN(a) THEN NaN ELSE IF a < 0 THEN -a ELSE a

Sign(a) == IF a > 0 THEN 1 ELSE IF a < 0 THEN -1 ELSE 0

FMul(a, b) ==
    IF IsNaN(a) \/ IsNaN(b) THEN NaN
    ELSE IF IsInfinite(a) \/ IsInfinite(b)
         THEN (IF Sign(a) * Sign(b) = 0 THEN NaN
               ELSE IF Sign(a) * Sign(b) > 0 THEN Inf ELSE NegInf)
    ELSE (a * b) \div SCALE

FDiv(a, b) ==
    IF IsNaN(a) \/ IsNaN(b) THEN NaN
    ELSE IF IsInfinite(a) /\ IsInfinite(b) THEN NaN
    ELSE IF IsInfinite(a) THEN (IF b >= 0 THEN a ELSE -a)
    ELSE IF IsInfinite(b) THEN 0
    ELSE IF b = 0 THEN (IF a = 0 THEN NaN ELSE IF a > 0 THEN Inf ELSE NegInf)
    ELSE (a * SCALE) \div b

\* Largest r in lo..hi with r * r <= x.
RECURSIVE ISqrtIn(_, _, _)
ISqrtIn(x, lo, hi) ==
    IF lo >= hi THEN lo
    ELSE LET mid == (lo + hi + 1) \div 2
         IN IF mid * mid <= x THEN ISqrtIn(x, mid, hi) ELSE ISqrtIn(x, lo, mid - 1)

ISqrt(x) == ISqrtIn(x, 0, Min(x, 46340))

FSqrt(a) ==
    IF IsNaN(a) THEN NaN
    ELSE IF a = Inf THEN Inf
    ELSE IF a < 0 THEN NaN
    ELSE ISqrt(a * SCALE)

\* math.erf at the model's resolution: SCALE * erf(k / 10) for k = 0..30,
\* linearly interpolated; erf is odd and erf(x) = 1 to three places from 3 on.
ErfTable ==
    <<0, 112, 223, 329, 428, 520, 604, 678, 742, 797, 843, 880, 910, 934, 952,
      966, 976, 984, 989, 993, 995, 997, 998, 999, 999, 1000, 1000, 1000, 1000,
      1000, 1000>>

ErfPos(x) ==
    LET step == SCALE \div 10
        k == x \div step
    IN IF k >= Len(ErfTable) - 1 THEN SCALE
       ELSE ErfTable[k + 1]
            + ((ErfTable[k + 2] - ErfTable[k + 1]) * (x - k * step)) \div step

erf(x) ==
    IF IsNaN(x) THEN NaN
    ELSE IF x = Inf THEN SCALE
    ELSE IF x = NegInf THEN -SCALE
    ELSE IF x < 0 THEN -ErfPos(-x)
    ELSE ErfPos(x)

\* np.maximum propagates NaN.
FMaximum(a, b) == IF IsNaN(a) \/ IsNaN(b) THEN NaN ELSE Max(a, b)

(***************************************************************************)
(* numpy reductions over a sequence of numbers.                            *)
(***************************************************************************)
RECURSIVE FSum(_)
FSum(s) == IF s = <<>> THEN 0 ELSE FAdd(Head(s), FSum(Tail(s)))

\* np.mean: NaN for an empty array (0 / 0).
FMean(s) ==
    IF s = <<>> THEN NaN
    ELSE LET t == FSum(s) IN IF IsFinite(t) THEN t \div Len(s) ELSE t

\* arr[np.logical_not(np.isnan(arr))]
NoNaN(s) == SelectSeq(s, LAMBDA x : ~IsNaN(x))

RECURSIVE Insert(_, _)
Insert(x, s) ==
    IF s = <<>> THEN <<x>>
    ELSE IF x <= Head(s) THEN <<x>> \o s
    ELSE <<Head(s)>> \o Insert(x, Tail(s))

\* np.sort: ascending, NaN last (NaN is the largest reserved integer).
RECURSIVE Sort(_)
Sort(s) == IF s = <<>> THEN <<>> ELSE Insert(Head(s), Sort(Tail(s)))

\* a[lo:hi] of Python, on a 1-based sequence.
Slice(s, lo, hi) == SubSeq(s, lo + 1, Min(hi, Len(s)))

\* The elements of a finite set of integers in ascending order.
RECURSIVE Ascending(_)
Ascending(S) ==
    IF S = {} THEN <<>>
    ELSE LET lo == CHOOSE x \in S : \A y \in S : x <= y
         IN <<lo>> \o Ascending(S \ {lo})

Column(st, c) == [r \in 1..Len(st) |-> st[r][c + 1]]

\* np.hstack((data_store, column.T))
HStack(st, col) == [r \in 1..Len(st) |-> Append(st[r], col[r])]

\* ndarray.any(): true for every nonzero element, NaN included.
any(s) == \E i \in 1..Len(s) : s[i] # 0

(***************************************************************************)
(* The element-wise transforms (static methods).                           *)
(***************************************************************************)
_standard_distance(mean_distance, sum_squared_distance) ==
    FSqrt(FDiv(sum_squared_distance, FAbs(mean_distance)))

_prob_set_distance(ext, standard_distance) ==
    FDiv(SCALE, FMul(ext, standard_distance))

_prob_outlier_factor(probabilistic_set_distance, ev_prob_dist) ==
    FSub(FDiv(probabilistic_set_distance, ev_prob_dist), SCALE)

_norm_prob_outlier_factor(ext, ev_probabilistic_outlier_factor) ==
    FMul(ext, FSqrt(ev_probabilistic_outlier_factor))

_local_outlier_probability(plof_val, nplof_val) ==
    FMaximum(0, erf(FDiv(plof_val, FMul(nplof_val, FSqrt(2 * SCALE)))))

(***************************************************************************)
(* Helpers of the instance.                                                *)
(***************************************************************************)
_n_observations(dat) == Len(dat)

\* np.empty: the content of the new table is whatever the allocator left
\* there; g[r] is the content found in row r.
_store(dat, g) == [r \in 1.._n_observations(dat) |-> <<g[r], g[r], g[r]>>]

\* A default that gives every observation a cluster of its own.
_cluster_labels_own(labels, dat) ==
    IF labels = None THEN [i \in 1..Len(dat) |-> i - 1] ELSE labels

_cluster_labels(labels, dat) ==
    IF labels = None THEN [i \in 1..Len(dat) |-> 0] ELSE labels

(***************************************************************************)
(* set(self._cluster_labels()): the labels are added one by one, in array  *)
(* order, to CPython's open-addressing hash table; the loop over the set   *)
(* walks the table by slot.  Slot j of the table is entry j + 1 here.      *)
(***************************************************************************)
PySet_MINSIZE == 8
LINEAR_PROBES == 9
PERTURB_SHIFT == 5

\* The interpreters told apart: the growth test of the table changed with
\* CPython 3.7.
Interpreters == {"3.6", "3.7"}

\* hash() of an integer label (labels below 2^61 - 1 in absolute value).
hash(key) == IF key = -1 THEN -2 ELSE key

Unused == [used |-> FALSE, key |-> 0]

\* size_t perturb = hash: the 64-bit word in two's complement, as digits of
\* PERTURB_SHIFT bits, lowest first (the last digit holds the 4 top bits).
WordBits == 8 * 8

RECURSIVE Word(_, _)
Word(h, bits) ==
    IF bits <= PERTURB_SHIFT THEN <<h % 2^bits>>
    ELSE <<h % 2^PERTURB_SHIFT>>
         \o Word(h \div 2^PERTURB_SHIFT, bits - PERTURB_SHIFT)

\* perturb >>= PERTURB_SHIFT
ShiftPerturb(perturb) == Tail(perturb) \o <<0>>

\* The low 30 bits of the word: all that "& mask" keeps of it.
RECURSIVE LowBits(_, _)
LowBits(perturb, digits) ==
    IF digits = 0 THEN 0
    ELSE Head(perturb) + 2^PERTURB_SHIFT * LowBits(Tail(perturb), digits - 1)

\* The slot where key sits, or the unused slot where it goes: from slot i,
\* LINEAR_PROBES further slots when they fit below the mask, then the jump
\* i = (i * 5 + 1 + perturb) & mask.
RECURSIVE set_lookkey(_, _, _, _)
set_lookkey(table, key, i, perturb) ==
    LET mask == Len(table) - 1
        probes == IF i + LINEAR_PROBES <= mask THEN LINEAR_PROBES ELSE 0
        found == {j \in i..(i + probes) :
                     ~table[j + 1].used \/ table[j + 1].key = key}
    IN IF found # {} THEN CHOOSE j \in found : \A o \in found : j <= o
       ELSE LET shifted == ShiftPerturb(perturb)
            IN set_lookkey(table, key,
                           (i * 5 + 1 + (LowBits(shifted, 6) % (mask + 1)))
                               % (mask + 1),
                           shifted)

set_insert(table, key) ==
    [table EXCEPT ![set_lookkey(table, key, hash(key) % Len(table),
                                Word(hash(key), WordBits)) + 1] =
                      [used |-> TRUE, key |-> key]]

SetUsed(table) == Cardinality({j \in 1..Len(table) : table[j].used})

RECURSIVE NewSize(_, _)
NewSize(newsize, minused) ==
    IF newsize <= minused THEN NewSize(2 * newsize, minused) ELSE newsize

\* The entries of the old table move to the new one in slot order.
RECURSIVE set_insert_clean(_, _, _)
set_insert_clean(newtable, oldtable, j) ==
    IF j > Len(oldtable) THEN newtable
    ELSE set_insert_clean(IF oldtable[j].used
                          THEN set_insert(newtable, oldtable[j].key)
                          ELSE newtable,
                          oldtable, j + 1)

set_table_resize(table, minused) ==
    set_insert_clean([j \in 1..NewSize(PySet_MINSIZE, minused) |-> Unused],
                     table, 1)

\* The table is left alone below this fill: two thirds of the mask before
\* CPython 3.7, three fifths from 3.7 on.
BelowFill(fill, mask, build) ==
    IF build = "3.6" THEN fill * 3 < mask * 2 ELSE fill * 5 < mask * 3

\* One label added; a full table grows to more than used*4 slots (used*2
\* above 50000 entries).
set_add_key(table, key, build) ==
    LET added == set_insert(table, key)
        used == SetUsed(added)
    IN IF added = table \/ BelowFill(used, Len(table) - 1, build) THEN added
       ELSE set_table_resize(added, IF used > 50000 THEN used * 2 ELSE used * 4)

RECURSIVE set_update(_, _, _, _)
set_update(table, labs, i, build) ==
    IF i > Len(labs) THEN table
    ELSE set_update(set_add_key(table, labs[i], build), labs, i + 1, build)

\* for cluster_id in set(self._cluster_labels()): the keys in slot order.
ClusterIds(labels, dat, build) ==
    LET table == set_update([j \in 1..PySet_MINSIZE |-> Unused],
                            _cluster_labels(labels, dat), 1, build)
        slots == SelectSeq([j \in 1..Len(table) |-> j],
                           LAMBDA j : table[j].used)
    IN [c \in 1..Len(slots) |-> table[slots[c]].key]

\* np.where(self._cluster_labels() == cluster_id)[0]
Indices(labs, cluster_id) ==
    SelectSeq([i \in 1..Len(labs) |-> i], LAMBDA i : labs[i] = cluster_id)

(***************************************************************************)
(* Stage 1, one iteration of the loop over the clusters.                   *)
(***************************************************************************)
\* d[i, j, k] of np.tril(points[:, np.newaxis] - points, -1): tril works on
\* the last two axes, so entry (j, k) is kept when k <= j - 1 (0-based) and
\* is replaced by 0 elsewhere.
TrilDifference(points, i, j, k) ==
    IF k < j THEN FSub(points[i][k], points[j][k]) ELSE 0

\* np.sort(np.mean(np.sqrt(d[:, vec] ** 2), axis=1))[1:n_neighbors + 1]
NeighborhoodDistances(points, vec, k) ==
    LET dim == Len(points[1])
        dist == [i \in 1..Len(points) |->
                   FMean([f \in 1..dim |-> FAbs(TrilDifference(points, i, vec, f))])]
    IN Slice(Sort(dist), 1, k + 1)

\* Assigning np.array([cluster_id, neighborhood_dist, closest]) to a float
\* row converts closest = neighborhood_distances[1:2] to one float, which
\* raises ValueError when that slice is empty.
RowRaises(neighborhood_distances) == Len(Slice(neighborhood_distances, 1, 2)) # 1

\* for vec in range(d.shape[1]): the rows of the cluster are written one
\* after the other, from position vec on, until one raises.
RECURSIVE DistancesRows(_, _, _, _, _, _)
DistancesRows(st, points, indices, k, cluster_id, vec) ==
    IF vec > Len(indices) THEN [raised |-> FALSE, store |-> st]
    ELSE LET neighborhood_distances == NeighborhoodDistances(points, vec, k)
         IN IF RowRaises(neighborhood_distances)
            THEN [raised |-> TRUE, store |-> st]
            ELSE DistancesRows(
                   [st EXCEPT ![indices[vec]] =
                       <<cluster_id, FMean(neighborhood_distances),
                         neighborhood_distances[2]>>],
                   points, indices, k, cluster_id, vec + 1)

DistancesCluster(st, dat, labs, k, cluster_id) ==
    LET indices == Indices(labs, cluster_id)
        points == [p \in 1..Len(indices) |-> dat[indices[p]]]
    IN DistancesRows(st, points, indices, k, cluster_id, 1)

\* if not data_store[:, 1].any(): ... sys.exit()
AllZero(st) == ~any(Column(st, 1))

\* The whole loop of _distances over the clusters in the given order.
RECURSIVE _distances(_, _, _, _, _)
_distances(st, dat, labs, k, order) ==
    IF order = <<>> THEN [status |-> "ok", store |-> st]
    ELSE LET it == DistancesCluster(st, dat, labs, k, Head(order))
         IN IF it.raised THEN [status |-> "raised", store |-> st]
            ELSE IF AllZero(it.store) THEN [status |-> "exited", store |-> it.store]
            ELSE _distances(it.store, dat, labs, k, Tail(order))

(***************************************************************************)
(* Stages 2 to 9.                                                          *)
(***************************************************************************)
\* np.unique(data_store[:, 0])
Unique(st) == Ascending({st[r][1] : r \in 1..Len(st)})

\* np.take(data_store[:, c], np.where(data_store[:, 0] == cluster_id))
\* without its NaN entries.
ClusterNoNaN(st, c, cluster_id) ==
    LET rows == SelectSeq(st, LAMBDA row : row[1] = cluster_id /\ ~IsNaN(row[c + 1]))
    IN [p \in 1..Len(rows) |-> rows[p][c + 1]]

Squares(s) == [i \in 1..Len(s) |-> FMul(s[i], s[i])]

\* The last line of a per-cluster stage broadcasts its dictionary to the
\* rows: [[dict[x] for x in data_store[:, 0].tolist()]]
Broadcast(st, dict) == HStack(st, [r \in 1..Len(st) |-> dict[st[r][1]]])

ssd_dict(st) ==
    [x \in {st[r][1] : r \in 1..Len(st)} |-> FSum(Squares(ClusterNoNaN(st, 1, x)))]

\* if ssd == 0.0: ... sys.exit(), for the first such cluster.
SsdExits(st) == \E x \in DOMAIN ssd_dict(st) : ssd_dict(st)[x] = 0

_ssd(st) == Broadcast(st, ssd_dict(st))

_standard_distances(st) ==
    HStack(st, [r \in 1..Len(st) |-> _standard_distance(st[r][2], st[r][4])])

_prob_set_distances(st, ext) ==
    HStack(st, [r \in 1..Len(st) |-> _prob_set_distance(ext, st[r][5])])

prob_set_distance_ev_dict(st) ==
    [x \in {st[r][1] : r \in 1..Len(st)} |-> FMean(ClusterNoNaN(st, 5, x))]

_prob_set_distances_ev(st) == Broadcast(st, prob_set_distance_ev_dict(st))

_prob_local_outlier_factors(st) ==
    HStack(st, [r \in 1..Len(st) |-> _prob_outlier_factor(st[r][6], st[r][7])])

\* np.sum(np.power(nonan, 2)) / float(nonan.size)
prob_local_outlier_factor_ev_dict(st) ==
    [x \in {st[r][1] : r \in 1..Len(st)} |-> FMean(Squares(ClusterNoNaN(st, 7, x)))]

_prob_local_outlier_factors_ev(st) == Broadcast(st, prob_local_outlier_factor_ev_dict(st))

_norm_prob_local_outlier_factors(st, ext) ==
    HStack(st, [r \in 1..Len(st) |-> _norm_prob_outlier_factor(ext, st[r][9])])

_local_outlier_probabilities(st) ==
    HStack(st, [r \in 1..Len(st) |-> _local_outlier_probability(st[r][8], st[r][10])])

(***************************************************************************)
(* fit() as a function of the object's fields, the content g that np.empty *)
(* hands out and the order in which stage 1 visits the clusters.           *)
(***************************************************************************)
FitUnder(dat, ext, k, labels, g, order) ==
    LET labs == _cluster_labels(labels, dat)
        s1 == _distances(_store(dat, g), dat, labs, k, order)
    IN IF s1.status # "ok"
       THEN [pc |-> s1.status, stage |-> 1, result |-> None]
       ELSE IF SsdExits(s1.store)
       THEN [pc |-> "exited", stage |-> 2, result |-> None]
       ELSE LET s9 == _local_outlier_probabilities(
                        _norm_prob_local_outlier_factors(
                          _prob_local_outlier_factors_ev(
                            _prob_local_outlier_factors(
                              _prob_set_distances_ev(
                                _prob_set_distances(
                                  _standard_distances(_ssd(s1.store)), ext)))), ext))
            IN [pc |-> "returned", stage |-> 9, result |-> Column(s9, 10)]

fit(dat, ext, k, labels, g, build) ==
    FitUnder(dat, ext, k, labels, g, ClusterIds(labels, dat, build))

(***************************************************************************)
(* Inputs.                                                                 *)
(***************************************************************************)
\* The feature values 0.0 and 1.0, in one or two features.
FiniteValues == {0, SCALE}

Dimensions == {1, 2}

Matrices(n, dim, values) == [1..n -> [1..dim -> values]]

\* Every observation in one cluster: no labels, or one id for all rows.
SingleClusterLabels(n) == {None, [i \in 1..n |-> MaxLabel]}

Extents == {0, 997, SCALE, 1500, NaN}

\* What np.empty can hand out for a row: zeroed memory or leftover bits.
Garbage == {0, 1}

\* The only read of the fresh table is the test of column 1 after a cluster,
\* which sees the leftover content of all rows of the clusters still to come:
\* what np.empty left behind is therefore chosen per cluster.
Leftovers(labs) ==
    {[r \in 1..Len(labs) |-> g[labs[r]]] :
        g \in [{labs[r] : r \in 1..Len(labs)} -> Garbage]}

TypeOK ==
    /\ pc \in {"start", "constructed", "_distances", "_ssd", "_standard_distances",
               "_prob_set_distances", "_prob_set_distances_ev",
               "_prob_local_outlier_factors", "_prob_local_outlier_factors_ev",
               "_norm_prob_local_outlier_factors", "_local_outlier_probabilities",
               "assign", "returned", "exited", "raised"}
    /\ stage \in 0..9
    /\ calls \in 0..MaxCalls

Start ==
    /\ interpreter \in Interpreters
    /\ local_outlier_probabilities = None
    /\ cluster_labels_u = <<>>
    /\ store = <<>>
    /\ todo = <<>>
    /\ pc = "start"
    /\ stage = 0
    /\ calls = 0
    /\ reads = {}
    /\ written = {}

Init ==
    /\ \E n \in 1..MaxObs, dim \in Dimensions :
          /\ data \in Matrices(n, dim, FiniteValues)
          /\ cluster_labels \in SingleClusterLabels(n)
    /\ extent \in Extents
    /\ n_neighbors \in -1..MaxNeighbors
    /\ Start

(***************************************************************************)
(* __init__: the fields are assigned, then the two range checks halt the   *)
(* process; the NaN check only warns.                                      *)
(***************************************************************************)
\* The check with the boundary on the wrong side.
NeighborsAcceptedFromZero(k) == k >= 0

NeighborsAccepted(k) == k > 0

ExtentAccepted(ext) == FLt(0, ext) /\ FLe(ext, SCALE)

__init__ ==
    /\ pc = "start"
    /\ pc' = IF NeighborsAccepted(n_neighbors) /\ ExtentAccepted(extent)
             THEN "constructed" ELSE "exited"
    /\ local_outlier_probabilities' = None
    /\ UNCHANGED <<interpreter, data, extent, n_neighbors, cluster_labels, cluster_labels_u,
                   store, todo, stage, calls, reads, written>>

(***************************************************************************)
(* fit().  Each action is one statement of fit; stage 1 is split into the  *)
(* iterations of its loop over the clusters.                               *)
(***************************************************************************)
Cells(rows, cols) == rows \X cols

AllRows == 1..Len(data)

\* store = self._store(), and the iterator of the loop of _distances.
fit_store ==
    /\ pc \in {"constructed", "returned"}
    /\ calls < MaxCalls
    /\ \E g \in Leftovers(_cluster_labels(cluster_labels, data)) :
          store' = _store(data, g)
    /\ todo' = ClusterIds(cluster_labels, data, interpreter)
    /\ pc' = "_distances"
    /\ stage' = 0
    /\ calls' = calls + 1
    /\ reads' = {}
    /\ written' = {}
    /\ UNCHANGED <<interpreter, data, extent, n_neighbors, cluster_labels,
                   local_outlier_probabilities, cluster_labels_u>>

\* One iteration of the loop of _distances: the rows of one cluster, then
\* the test of column 1 of the whole table.
fit_distances ==
    /\ pc = "_distances"
    /\ todo # <<>>
    /\ LET labs == _cluster_labels(cluster_labels, data)
           it == DistancesCluster(store, data, labs, n_neighbors, Head(todo))
           rows == {r \in AllRows : labs[r] = Head(todo)}
       IN /\ stage' = 1
          /\ todo' = Tail(todo)
          /\ IF it.raised
             THEN /\ pc' = "raised"
                  /\ UNCHANGED <<store, reads, written>>
             ELSE /\ store' = it.store
                  /\ written' = written \cup Cells(rows, 0..2)
                  /\ reads' = Cells(AllRows, {1})
                  /\ pc' = IF AllZero(it.store) THEN "exited"
                           ELSE IF Tail(todo) = <<>> THEN "_ssd"
                           ELSE "_distances"
    /\ UNCHANGED <<interpreter, data, extent, n_neighbors, cluster_labels,
                   local_outlier_probabilities, cluster_labels_u, calls>>

\* A stage that appends column col, computed from the columns in from.
Appends(at, next, number, new, from, col) ==
    /\ pc = at
    /\ pc' = next
    /\ stage' = number
    /\ store' = new
    /\ reads' = Cells(AllRows, from)
    /\ written' = written \cup Cells(AllRows, {col})
    /\ UNCHANGED <<interpreter, data, extent, n_neighbors, cluster_labels,
                   local_outlier_probabilities, todo, calls>>

fit_ssd ==
    /\ pc = "_ssd"
    /\ cluster_labels_u' = Unique(store)
    /\ IF SsdExits(store)
       THEN /\ pc' = "exited"
            /\ stage' = 2
            /\ reads' = Cells(AllRows, {0, 1})
            /\ UNCHANGED <<interpreter, data, extent, n_neighbors, cluster_labels,
                           local_outlier_probabilities, store, todo, calls, written>>
       ELSE Appends("_ssd", "_standard_distances", 2, _ssd(store), {0, 1}, 3)

fit_standard_distances ==
    /\ Appends("_standard_distances", "_prob_set_distances", 3,
               _standard_distances(store), {1, 3}, 4)
    /\ UNCHANGED cluster_labels_u

fit_prob_set_distances ==
    /\ Appends("_prob_set_distances", "_prob_set_distances_ev", 4,
               _prob_set_distances(store, extent), {4}, 5)
    /\ UNCHANGED cluster_labels_u

fit_prob_set_distances_ev ==
    /\ Appends("_prob_set_distances_ev", "_prob_local_outlier_factors", 5,
               _prob_set_distances_ev(store), {0, 5}, 6)
    /\ UNCHANGED cluster_labels_u

fit_prob_local_outlier_factors ==
    /\ Appends("_prob_local_outlier_factors", "_prob_local_outlier_factors_ev", 6,
               _prob_local_outlier_factors(store), {5, 6}, 7)
    /\ UNCHANGED cluster_labels_u

fit_prob_local_outlier_factors_ev ==
    /\ Appends("_prob_local_outlier_factors_ev", "_norm_prob_local_outlier_factors", 7,
               _prob_local_outlier_factors_ev(store), {0, 7}, 8)
    /\ UNCHANGED cluster_labels_u

fit_norm_prob_local_outlier_factors ==
    /\ Appends("_norm_prob_local_outlier_factors", "_local_outlier_probabilities", 8,
               _norm_prob_local_outlier_factors(store, extent), {8}, 9)
    /\ UNCHANGED cluster_labels_u

fit_local_outlier_probabilities ==
    /\ Appends("_local_outlier_probabilities", "assign", 9,
               _local_outlier_probabilities(store), {7, 9}, 10)
    /\ UNCHANGED cluster_labels_u

\* self.local_outlier_probabilities = store[:, 10]; return it
fit_return ==
    /\ pc = "assign"
    /\ pc' = "returned"
    /\ local_outlier_probabilities' = Column(store, 10)
    /\ reads' = Cells(AllRows, {10})
    /\ UNCHANGED <<interpreter, data, extent, n_neighbors, cluster_labels, cluster_labels_u,
                   store, todo, stage, calls, written>>

Next ==
    \/ __init__
    \/ fit_store
    \/ fit_distances
    \/ fit_ssd
    \/ fit_standard_distances
    \/ fit_prob_set_distances
    \/ fit_prob_set_distances_ev
    \/ fit_prob_local_outlier_factors
    \/ fit_prob_local_outlier_factors_ev
    \/ fit_norm_prob_local_outlier_factors
    \/ fit_local_outlier_probabilities
    \/ fit_return

Spec == Init /\ [][Next]_vars

(***************************************************************************)
(* Two more input families: observations with missing values, and two      *)
(* clusters large enough for stage 1 to get past both.                     *)
(***************************************************************************)
MissingShape == [observations |-> 4, features |-> 2]

InitMissing ==
    /\ data \in Matrices(MissingShape.observations, MissingShape.features,
                         FiniteValues \cup {NaN})
    /\ cluster_labels = None
    /\ extent = 997
    /\ n_neighbors = 3
    /\ Start

SpecMissing == InitMissing /\ [][Next]_vars

PairShape == [observations |-> 6, members |-> 3]

\* Two pairs of cluster ids: the loop takes 0 before 1, and 8 before 1.
PairIds == {{0, 1}, {1, 8}}

InitPair ==
    /\ data \in Matrices(PairShape.observations, 1, FiniteValues)
    /\ \E ids \in PairIds :
          cluster_labels \in
             {l \in [1..PairShape.observations -> ids] :
                 \A c \in ids :
                    Cardinality({i \in DOMAIN l : l[i] = c}) = PairShape.members}
    /\ extent = 997
    /\ n_neighbors = 2
    /\ Start

SpecPair == InitPair /\ [][Next]_vars

(***************************************************************************)
(* Vocabulary of the properties.                                           *)
(***************************************************************************)
Terminal == pc \in {"returned", "exited", "raised"}

\* What the call in progress has come to.
Outcome ==
    [pc |-> pc, stage |-> stage,
     result |-> IF pc = "returned" THEN local_outlier_probabilities ELSE None]

RowHasNaN(row) == \E f \in 1..Len(row) : IsNaN(row[f])

Labels == _cluster_labels(cluster_labels, data)

Members(c) == {r \in AllRows : Labels[r] = c}

ClusterSet == {Labels[r] : r \in AllRows}

Permutations(n) == {f \in [1..n -> 1..n] : \A i, j \in 1..n : f[i] = f[j] => i = j}

Permute(s, f) == [i \in 1..Len(s) |-> s[f[i]]]

Orders(S) == {Permute(Ascending(S), f) : f \in Permutations(Cardinality(S))}

ZeroMemory == [r \in AllRows |-> 0]

(***************************************************************************)
(* C6.  Invalid configuration is rejected before any computation: with     *)
(* n_neighbors <= 0 or extent outside (0,1] the constructor halts and no   *)
(* stage ever runs; with n_neighbors > 0 and extent in (0,1] the           *)
(* constructor does not halt.                                              *)
(***************************************************************************)
ConfigurationValid ==
    n_neighbors > 0 /\ extent # NaN /\ extent > 0 /\ extent <= SCALE

InvalidConfigurationRejected ==
    pc # "start" =>
        IF ConfigurationValid
        THEN ~(pc = "exited" /\ calls = 0)
        ELSE pc = "exited" /\ calls = 0 /\ stage = 0 /\ store = <<>> /\ written = {}

InvalidConfigurationRejectedWitness ==
    pc = "exited" /\ calls = 0 /\ n_neighbors = 0 /\ extent = 997

(***************************************************************************)
(* C7.  Default-cluster equivalence: a call without cluster labels ends    *)
(* as the call with any label vector that puts every observation in one    *)
(* cluster: the same halt at the same stage, or the same score vector.     *)
(***************************************************************************)
DefaultClusterEquivalence ==
    (cluster_labels = None /\ Terminal /\ calls > 0) =>
        \A c \in 0..MaxLabel :
            \A g \in Leftovers([i \in AllRows |-> c]) :
                fit(data, extent, n_neighbors, [i \in AllRows |-> c], g, interpreter) = Outcome

DefaultClusterEquivalenceWitness ==
    /\ cluster_labels = None
    /\ pc = "returned"
    /\ \E i \in AllRows : local_outlier_probabilities[i] > 0

(***************************************************************************)
(* C1.  Every returned score is NaN or lies in [0,1], and an observation   *)
(* whose features are all finite gets a score in [0,1].                    *)
(***************************************************************************)
ScoresAreProbabilities ==
    pc = "returned" =>
        \A i \in AllRows :
            LET score == local_outlier_probabilities[i]
            IN /\ IsNaN(score) \/ (0 <= score /\ score <= SCALE)
               /\ ~RowHasNaN(data[i]) => ~IsNaN(score)

(***************************************************************************)
(* C2.  Permutation equivariance: fit on the rows and labels permuted by   *)
(* pi returns the scores of the original input permuted by pi.             *)
(***************************************************************************)
PermutationEquivariance ==
    pc = "returned" =>
        \A f \in Permutations(Len(data)) :
            fit(Permute(data, f), extent, n_neighbors, Permute(Labels, f), ZeroMemory, interpreter)
              = [pc |-> "returned", stage |-> 9,
                 result |-> Permute(local_outlier_probabilities, f)]

(***************************************************************************)
(* C3.  n_neighbors is strictly less than the size of the smallest         *)
(* cluster: for a configuration with n_neighbors >= the size of some       *)
(* cluster the object is rejected at construction and fit never computes   *)
(* neighbor distances.                                                     *)
(***************************************************************************)
SmallestCluster ==
    CHOOSE m \in {Cardinality(Members(c)) : c \in ClusterSet} :
        \A c \in ClusterSet : m <= Cardinality(Members(c))

NeighborsBelowClusterSize ==
    n_neighbors >= SmallestCluster => written = {}

(***************************************************************************)
(* C4.  Missing values stay local and are never fatal: NaN appears in the  *)
(* result only at the observations whose own features contain NaN, and a   *)
(* call halts only if it also halts without those observations.            *)
(***************************************************************************)
Complete == Ascending({r \in AllRows : ~RowHasNaN(data[r])})

WithoutMissing(s) == [p \in 1..Len(Complete) |-> s[Complete[p]]]

MissingValuesStayLocal ==
    /\ pc = "returned" =>
          \A i \in AllRows :
              IsNaN(local_outlier_probabilities[i]) => RowHasNaN(data[i])
    /\ (calls > 0 /\ pc \in {"exited", "raised"}) =>
          fit(WithoutMissing(data), extent, n_neighbors, WithoutMissing(Labels),
              [p \in 1..Len(Complete) |-> 0], interpreter).pc # "returned"

(***************************************************************************)
(* C5.  Degenerate input halts the whole run: when some cluster consists   *)
(* only of identical points, fit halts with the degeneracy error at stage  *)
(* 1 or 2, no later stage runs, no score vector is returned and            *)
(* local_outlier_probabilities stays as it was.                            *)
(***************************************************************************)
IdenticalCluster ==
    \E c \in ClusterSet :
        /\ Cardinality(Members(c)) > 1
        /\ \A r1, r2 \in Members(c) : data[r1] = data[r2] /\ ~RowHasNaN(data[r1])

DegenerateInputHalts ==
    IdenticalCluster =>
        /\ pc \in {"start", "constructed", "_distances", "_ssd", "exited"}
        /\ local_outlier_probabilities = None
        /\ (pc = "exited" /\ calls > 0) => stage \in {1, 2}

(***************************************************************************)
(* C8.  After stage 1 the context distance of every observation is the     *)
(* mean of the n_neighbors smallest Euclidean distances to the other       *)
(* members of its own cluster, stored in the observation's own row.        *)
(***************************************************************************)
Euclidean(p, q) ==
    FSqrt(FSum([f \in 1..Len(p) |-> FMul(FSub(p[f], q[f]), FSub(p[f], q[f]))]))

NearestNeighborMean(r) ==
    LET others == Ascending(Members(Labels[r]) \ {r})
        dist == Sort([p \in 1..Len(others) |-> Euclidean(data[r], data[others[p]])])
    IN FMean(Slice(dist, 0, n_neighbors))

ContextDistanceIsNeighborMean ==
    pc = "_ssd" =>
        \A r \in AllRows :
            /\ store[r][1] = Labels[r]
            /\ store[r][2] = NearestNeighborMean(r)

(***************************************************************************)
(* C9.  The order in which the clusters are processed does not matter:     *)
(* every order gives the same halt at the same stage or the same scores,   *)
(* and the processing of a cluster reads no row of a cluster that has not  *)
(* been processed yet.                                                     *)
(***************************************************************************)
ClusterOrderIrrelevant ==
    /\ (pc = "_distances" /\ written = {}) =>
          \A order \in Orders(ClusterSet) :
              FitUnder(data, extent, n_neighbors, cluster_labels,
                       [r \in AllRows |-> store[r][2]], order)
                = fit(data, extent, n_neighbors, cluster_labels,
                      [r \in AllRows |-> store[r][2]], interpreter)
    /\ stage = 1 => reads \subseteq written

(***************************************************************************)
(* C10.  The pipeline is linear and append-only: the stages of a call run  *)
(* once each in the order 1 to 9, a stage reads only what has been         *)
(* populated earlier in the same call, no populated cell changes           *)
(* afterwards, and every call starts from a fresh table.                   *)
(***************************************************************************)
StagesInOrder ==
    \/ stage' = stage
    \/ stage' = stage + 1
    \/ pc' = "_distances" /\ stage' = 0 /\ written' = {}

AppendOnly ==
    (pc # "_distances" /\ pc' # "_distances" /\ store # <<>>) =>
        \A r \in AllRows : \A c \in 1..Len(store[r]) :
            /\ Len(store'[r]) >= Len(store[r])
            /\ store'[r][c] = store[r][c]

PipelineLinearAppendOnly ==
    /\ [][StagesInOrder /\ AppendOnly]_vars
    /\ [](reads \subseteq written)
====
